---- MODULE Spec2Model ----
(***************************************************************************)
(* The OCI surrogate driver (pkg/ocisurrogate/driver_oci.go): the generic  *)
(* state poller waitForResourceToReachState, the four WaitFor* adapters    *)
(* bound to it, and the driver's create, attach, detach, delete, address   *)
(* and credential operations.  One driver call is in progress at a time;   *)
(* the remote service answers every call nondeterministically.             *)
(***************************************************************************)
EXTENDS Integers, Sequences, FiniteSets, TLC

\* ------------------------------------------------------------------ bounds
\* Longest waitStates slice a caller passes.
MaxWait == 2
\* Largest bounded retry budget a caller passes (0 = unlimited, -1 = a
\* negative budget).
MaxRetriesBound == 3
\* Cap on the number of fetches of one poll loop (unlimited budgets).
MaxFetch == 4
\* Longest Items list a ListImages response carries.
MaxItems == 2

\* ------------------------------------------------------- value vocabularies
\* Lifecycle states the remote service reports.
States == {"PROVISIONING", "AVAILABLE", "TERMINATED"}

\* Image ids the remote service knows, and the configured base image id.
ImageIds == {"img-a", "img-b"}
BaseIds == {"", "img-cfg"}
BaseNames == {"", "base-name"}
VolumeIds == {"", "vol-1"}
InstanceIds == {"i-1"}
PublicKeys == {"ssh-rsa KEY"}

\* Custom metadata maps of the configuration (a nil map ranges like an empty
\* one) and the user_data values Prepare leaves in it.
EmptyMap == [k \in {} |-> ""]
MetadataChoices ==
    { EmptyMap,
      ("team" :> "infra"),
      ("user_data" :> "md-ud"),
      ("user_data" :> "md-ud") @@ ("team" :> "infra"),
      ("user_data" :> "md-ud") @@ ("ssh_authorized_keys" :> "custom-key") }
UserDatas == {"", "dXNlcg=="}

\* error values: a record naming the kind and, for the poller's own errors,
\* the state and budget the message is formatted from.
NilErr == [kind |-> "nil", state |-> "", n |-> 0]
ErrRemote == [kind |-> "remote", state |-> "", n |-> 0]
ErrNotFound == [kind |-> "notfound", state |-> "", n |-> 0]
ErrCanceled == [kind |-> "canceled", state |-> "", n |-> 0]

\* The contexts a remote call can be issued with: the caller's ctx or a
\* fresh context.TODO().
CallerCtx == "caller"
TodoCtx == "TODO"

VARIABLES
    cfg,            \* d.cfg: BaseImageID, BaseImageName, UsePrivateIP, Metadata, UserData
    ctxCancelled,   \* the caller-supplied ctx has been cancelled
    op,             \* the driver operation in progress ("none" before a call)
    pc,             \* its position: idle, loop, sleep, done
    args,           \* the operation's arguments
    calls,          \* remote calls issued so far, with context and response
    outcome,        \* "none", "returned" or "panicked"
    retVal,         \* returned identifier
    retErr,         \* returned error
    waitStates,     \* poller: waitStates slice
    terminalState,  \* poller: terminalState
    maxRetries,     \* poller: maxRetries
    i,              \* poller: loop counter
    observed,       \* poller: what getResourceState returned, in order
    fetches,        \* poller: number of getResourceState invocations
    sleeps          \* poller: number of completed time.Sleep calls

vars == <<cfg, ctxCancelled, op, pc, args, calls, outcome, retVal, retErr,
          waitStates, terminalState, maxRetries, i, observed, fetches, sleeps>>

pollerVars == <<waitStates, terminalState, maxRetries, i, observed, fetches, sleeps>>

\* ---------------------------------------------------------------- helpers
\* Sequences over S of length at most n.
SeqsUpTo(S, n) == UNION {[1..k -> S] : k \in 0..n}

\* Slices without repeated elements, of length at most n.
Slices(S, n) == {s \in SeqsUpTo(S, n) : \A a, b \in 1..Len(s) : a # b => s[a] # s[b]}

\* Config.Prepare rejects a configuration with neither base image id nor name.
DriverConfigs ==
    {c \in [BaseImageID : BaseIds, BaseImageName : BaseNames, UsePrivateIP : BOOLEAN,
            Metadata : MetadataChoices, UserData : UserDatas] :
        ~(c.BaseImageID = "" /\ c.BaseImageName = "")}

\* The configurations with no custom metadata, no user_data and the public
\* address preferred.
Configs == {c \in DriverConfigs :
              c.UsePrivateIP = FALSE /\ c.Metadata = EmptyMap /\ c.UserData = ""}

\* The arguments of a driver call; a field an operation does not take is "".
Args(publicKey, surrogateVolumeId, id, volumeId) ==
    [publicKey |-> publicKey, surrogateVolumeId |-> surrogateVolumeId,
     id |-> id, volumeId |-> volumeId]

NoArgs == Args("", "", "", "")

\* stringSliceContains: loop over the slice, true at the first equal element.
RECURSIVE stringSliceContainsFrom(_, _, _)
stringSliceContainsFrom(slice, value, k) ==
    IF k > Len(slice) THEN FALSE
    ELSE IF slice[k] = value THEN TRUE
    ELSE stringSliceContainsFrom(slice, value, k + 1)

stringSliceContains(slice, value) == stringSliceContainsFrom(slice, value, 1)

\* ------------------------------------------------------------------- Init
Init ==
    /\ cfg \in Configs
    /\ ctxCancelled = FALSE
    /\ op = "none"
    /\ pc = "idle"
    /\ args = NoArgs
    /\ calls = <<>>
    /\ outcome = "none"
    /\ retVal = ""
    /\ retErr = NilErr
    /\ waitStates = <<>>
    /\ terminalState = ""
    /\ maxRetries = 0
    /\ i = 0
    /\ observed = <<>>
    /\ fetches = 0
    /\ sleeps = 0


\* ------------------------------------------------- the remote service client
\* Errors a remote call can return: with the caller's ctx, a cancellation
\* error once that ctx is cancelled.
RemoteErrors(ctx) ==
    {ErrRemote, ErrNotFound} \cup
    (IF ctx = CallerCtx /\ ctxCancelled THEN {ErrCanceled} ELSE {})

\* The lifecycle states GetImage reports.
ImageStates == {"PROVISIONING", "IMPORTING", "AVAILABLE", "DISABLED", "DELETED"}

\* The states the fetch of operation o can report.
FetchStates(o) == IF o = "WaitForImageCreation" THEN ImageStates ELSE States

\* What a state fetch (GetImage, GetInstance, GetBootVolume,
\* GetVolumeAttachment, or the getResourceState argument) can answer.
FetchResponses(ctx) ==
    {[err |-> NilErr, state |-> s] : s \in FetchStates(op)} \cup
    {[err |-> e, state |-> ""] : e \in RemoteErrors(ctx)}

ListImagesResponses ==
    {[err |-> NilErr, items |-> s] : s \in SeqsUpTo(ImageIds, MaxItems)} \cup
    {[err |-> e, items |-> <<>>] : e \in RemoteErrors(TodoCtx)}

LaunchInstanceResponses ==
    {[err |-> NilErr, items |-> <<id>>] : id \in InstanceIds} \cup
    {[err |-> e, items |-> <<>>] : e \in RemoteErrors(TodoCtx)}

RemoteCall(api, ctx, kind, id, resp) ==
    [api |-> api, ctx |-> ctx, arg |-> [kind |-> kind, id |-> id], resp |-> resp]

\* ---------------------------------------------------------- the state poller
WaitOps == {"WaitForImageCreation", "WaitForInstanceState",
            "WaitForBootVolumeState", "WaitForVolumeAttachmentState"}

\* The remote get each adapter's closure issues.
FetchApi(o) ==
    CASE o = "WaitForImageCreation" -> "GetImage"
      [] o = "WaitForInstanceState" -> "GetInstance"
      [] o = "WaitForBootVolumeState" -> "GetBootVolume"
      [] o = "WaitForVolumeAttachmentState" -> "GetVolumeAttachment"
      [] OTHER -> "getResourceState"

\* The context the fetch runs with: the adapters' closures pass ctx on; a
\* getResourceState handed to the poller directly has none.
FetchCtx(o) == IF o \in WaitOps THEN CallerCtx ELSE "none"

UnexpectedErr(state) == [kind |-> "unexpected", state |-> state, n |-> 0]

MaxRetriesErr(n, ts) == [kind |-> "maxretries", state |-> ts, n |-> n]

\* mutant: the unlimited budget is not recognised
LoopContinues_NoUnlimited(mr, k) == k < mr

\* mutant: the budget test off by one
LoopContinues_OffByOne(mr, k) == mr = 0 \/ k <= mr

\* for i := 0; maxRetries == 0 || i < maxRetries; i++
LoopContinues(mr, k) == mr = 0 \/ k < mr

\* mutant: the terminal state is never recognised
PollVerdict_NoTerminal(ws, ts, state) ==
    IF stringSliceContains(ws, state) THEN "wait" ELSE "unexpected"

\* mutant: an unexpected state is waited on like a waiting state
PollVerdict_RetryUnexpected(ws, ts, state) ==
    IF state = ts /\ ~stringSliceContains(ws, state) THEN "success" ELSE "wait"

\* mutant: the terminal state is slept on like a waiting state
PollVerdict_SleepOnTerminal(ws, ts, state) ==
    IF stringSliceContains(ws, state) \/ state = ts THEN "wait" ELSE "unexpected"

\* The branch taken on a fetched state: waiting states first, then the
\* terminal state, anything else is unexpected.
PollVerdict(ws, ts, state) ==
    IF stringSliceContains(ws, state) THEN "wait"
    ELSE IF state = ts THEN "success"
    ELSE "unexpected"

\* mutant: the fetch error is replaced by a generic one
FetchErrResult_Replaced(err) == ErrRemote

\* if err != nil { return err }
FetchErrResult(err) == err

\* waitForResourceToReachState(getResourceState, id, ws, ts, n, waitDuration)
StartPoll(o, id, ws, ts, n) ==
    /\ pc = "idle"
    /\ op' = o
    /\ args' = Args("", "", id, "")
    /\ waitStates' = ws
    /\ terminalState' = ts
    /\ maxRetries' = n
    /\ i' = 0
    /\ pc' = "loop"
    /\ UNCHANGED <<cfg, ctxCancelled, calls, outcome, retVal, retErr,
                   observed, fetches, sleeps>>

CallPoller(ws, ts, n) == StartPoll("waitForResourceToReachState", "r-1", ws, ts, n)

\* mutant: the adapters pass a bounded budget
UnlimitedRetries_Bounded == MaxRetriesBound

\* 0, //Unlimited Retries
UnlimitedRetries == 0

\* mutant: IMPORTING is waited on too
ImageWaitStates_WithImporting == <<"PROVISIONING", "IMPORTING">>

\* []string{"PROVISIONING"} and "AVAILABLE"
ImageWaitStates == <<"PROVISIONING">>

ImageTerminalState == "AVAILABLE"

WaitForImageCreation(id) ==
    StartPoll("WaitForImageCreation", id, ImageWaitStates, ImageTerminalState,
              UnlimitedRetries)

WaitForInstanceState(id, ws, ts) ==
    StartPoll("WaitForInstanceState", id, ws, ts, UnlimitedRetries)

WaitForBootVolumeState(id, ws, ts) ==
    StartPoll("WaitForBootVolumeState", id, ws, ts, UnlimitedRetries)

WaitForVolumeAttachmentState(id, ws, ts) ==
    StartPoll("WaitForVolumeAttachmentState", id, ws, ts, UnlimitedRetries)

PollReturn(err) ==
    /\ pc' = "done"
    /\ outcome' = "returned"
    /\ retErr' = err

\* One loop iteration: the loop condition holds, getResourceState is invoked
\* and its answer is acted on.
Fetch(resp) ==
    /\ pc = "loop"
    /\ LoopContinues(maxRetries, i)
    /\ fetches < MaxFetch
    /\ resp \in FetchResponses(FetchCtx(op))
    /\ fetches' = fetches + 1
    /\ observed' = Append(observed, resp)
    /\ calls' = IF op \in WaitOps
                THEN Append(calls, RemoteCall(FetchApi(op), FetchCtx(op), "id", args.id,
                                              [err |-> resp.err, items |-> <<resp.state>>]))
                ELSE calls
    /\ IF resp.err # NilErr
       THEN PollReturn(FetchErrResult(resp.err))
       ELSE CASE PollVerdict(waitStates, terminalState, resp.state) = "wait" ->
                   pc' = "sleep" /\ UNCHANGED <<outcome, retErr>>
              [] PollVerdict(waitStates, terminalState, resp.state) = "success" ->
                   PollReturn(NilErr)
              [] OTHER -> PollReturn(UnexpectedErr(resp.state))
    /\ UNCHANGED <<cfg, ctxCancelled, op, args, retVal, waitStates, terminalState,
                   maxRetries, i, sleeps>>

\* time.Sleep(waitDuration) returns after the full duration; continue; i++
Sleep ==
    /\ pc = "sleep"
    /\ sleeps' = sleeps + 1
    /\ i' = i + 1
    /\ pc' = "loop"
    /\ UNCHANGED <<cfg, ctxCancelled, op, args, calls, outcome, retVal, retErr,
                   waitStates, terminalState, maxRetries, observed, fetches>>

\* The loop condition fails: the budget is spent.
Exhausted ==
    /\ pc = "loop"
    /\ ~LoopContinues(maxRetries, i)
    /\ PollReturn(MaxRetriesErr(maxRetries, terminalState))
    /\ UNCHANGED <<cfg, ctxCancelled, op, args, calls, retVal, pollerVars>>

\* The caller cancels the context it passed to the operation in progress.
Cancel ==
    /\ pc \notin {"idle", "done"}
    /\ ~ctxCancelled
    /\ ctxCancelled' = TRUE
    /\ UNCHANGED <<cfg, op, pc, args, calls, outcome, retVal, retErr, pollerVars>>

\* ------------------------------------------------------------ CreateInstance
\* Whether the image is looked up by name: decided by cfg.BaseImageName
\* alone, before surrogateVolumeId is looked at.
NeedsImageLookup(c, surrogateVolumeId) == c.BaseImageName # ""

\* mutant: a configured base image id wins over the name lookup
ResolvedImageId_PreferId(c, listResp) ==
    IF c.BaseImageID # "" THEN c.BaseImageID ELSE listResp.items[1]

\* mutant: the last match is taken instead of the first
ResolvedImageId_Last(c, listResp) ==
    IF c.BaseImageName # "" THEN listResp.items[Len(listResp.items)] ELSE c.BaseImageID

\* imageId after the lookup: Items[0].Id of the response, or cfg.BaseImageID.
ResolvedImageId(c, listResp) ==
    IF c.BaseImageName # "" THEN listResp.items[1] ELSE c.BaseImageID

\* sourcedetails: via image, replaced by via boot volume for a surrogate id.
SourceDetails(imageId, surrogateVolumeId) ==
    IF surrogateVolumeId # ""
    THEN [kind |-> "bootVolume", id |-> surrogateVolumeId]
    ELSE [kind |-> "image", id |-> imageId]

\* The context CreateInstance hands to its remote calls.
CreateInstanceCtx == TodoCtx

\* b written over a: metadata[key] = value for every key of b.
MergeMaps(a, b) ==
    [k \in (DOMAIN a) \cup (DOMAIN b) |-> IF k \in DOMAIN b THEN b[k] ELSE a[k]]

\* mutant: cfg.Metadata is written last, over the explicit user_data
LaunchMetadata_MetadataLast(c, publicKey) ==
    LET base == ("ssh_authorized_keys" :> publicKey)
        withData == IF c.UserData # "" THEN MergeMaps(base, ("user_data" :> c.UserData))
                    ELSE base
    IN  MergeMaps(withData, c.Metadata)

\* metadata: the authorized key, then cfg.Metadata, then cfg.UserData.
LaunchMetadata(c, publicKey) ==
    LET merged == MergeMaps(("ssh_authorized_keys" :> publicKey), c.Metadata)
    IN  IF c.UserData # "" THEN MergeMaps(merged, ("user_data" :> c.UserData))
        ELSE merged

\* What one run of a driver operation does: the remote calls it issues, how
\* it ends, and what it returns.
Returned(cs, val, err) == [calls |-> cs, outcome |-> "returned", val |-> val, err |-> err]

Panicked(cs) == [calls |-> cs, outcome |-> "panicked", val |-> "", err |-> NilErr]

CreateInstanceRun(c, publicKey, surrogateVolumeId, listResp, launchResp) ==
    LET lookup == NeedsImageLookup(c, surrogateVolumeId)
        listCall == RemoteCall("ListImages", CreateInstanceCtx, "displayName",
                               c.BaseImageName, listResp)
        before == IF lookup THEN <<listCall>> ELSE <<>>
    IN  IF lookup /\ listResp.err # NilErr
        THEN Returned(before, "", listResp.err)
        ELSE IF lookup /\ Len(listResp.items) = 0
        THEN \* Items[0] of an empty slice: index out of range
             Panicked(before)
        ELSE LET src == SourceDetails(ResolvedImageId(c, listResp), surrogateVolumeId)
                 launch == RemoteCall("LaunchInstance", CreateInstanceCtx,
                                      src.kind, src.id, launchResp)
                          @@ ("metadata" :> LaunchMetadata(c, publicKey))
             IN  IF launchResp.err # NilErr
                 THEN Returned(Append(before, launch), "", launchResp.err)
                 ELSE Returned(Append(before, launch), launchResp.items[1], NilErr)

\* A run's effect on the driver's caller: the calls are issued and the
\* operation has ended.
Effects(o, a, run) ==
    /\ op' = o
    /\ args' = a
    /\ pc' = "done"
    /\ calls' = calls \o run.calls
    /\ outcome' = run.outcome
    /\ retVal' = run.val
    /\ retErr' = run.err
    /\ UNCHANGED <<cfg, ctxCancelled, pollerVars>>

\* A driver operation called on the idle driver runs to its end.
Invoke(o, a, run) == pc = "idle" /\ Effects(o, a, run)

CreateInstance(publicKey, surrogateVolumeId, listResp, launchResp) ==
    Invoke("CreateInstance", Args(publicKey, surrogateVolumeId, "", ""),
           CreateInstanceRun(cfg, publicKey, surrogateVolumeId, listResp, launchResp))

\* ------------------------------------------- the other driver operations
BootVolumeIds == {"bv-1", "bv-2"}
AttachmentIds == {"att-1"}
VnicIds == {"vnic-1", "vnic-2"}
\* A nil *string of a response.
NilPtr == "<nil>"
PrivateIps == {NilPtr, "10.0.0.2"}
PublicIps == {NilPtr, "203.0.113.9"}
Credentials == {<<"opc", "secret">>}

\* Answers of the remote calls made with the caller's ctx.
ErrorResponses(ctx) == {[err |-> e, items |-> <<>>] : e \in RemoteErrors(ctx)}

ListResponses(ids, ctx) ==
    {[err |-> NilErr, items |-> l] : l \in SeqsUpTo(ids, MaxItems)} \cup ErrorResponses(ctx)

IdResponses(ids, ctx) ==
    {[err |-> NilErr, items |-> <<id>>] : id \in ids} \cup ErrorResponses(ctx)

EmptyResponses(ctx) == {[err |-> NilErr, items |-> <<>>]} \cup ErrorResponses(ctx)

GetVnicResponses(ctx) ==
    {[err |-> NilErr, items |-> <<pr, pu>>] : pr \in PrivateIps, pu \in PublicIps}
        \cup ErrorResponses(ctx)

CredentialResponses(ctx) ==
    {[err |-> NilErr, items |-> c] : c \in Credentials} \cup ErrorResponses(ctx)

\* mutant: the clone is requested although the attachment lookup failed
CreateBootCloneRun_CreatesAfterFailedList(InstanceId, listResp, createResp) ==
    LET listCall == RemoteCall("ListBootVolumeAttachments", CallerCtx, "instance",
                               InstanceId, listResp)
        source == IF Len(listResp.items) = 0 THEN "" ELSE listResp.items[1]
        createCall == RemoteCall("CreateBootVolume", CallerCtx, "bootVolume",
                                 source, createResp)
    IN  IF createResp.err # NilErr
        THEN Returned(<<listCall, createCall>>, "", createResp.err)
        ELSE Returned(<<listCall, createCall>>, createResp.items[1], NilErr)

\* CreateBootClone: the instance's boot volume attachments are listed and the
\* first one's boot volume is cloned.
CreateBootCloneRun(InstanceId, listResp, createResp) ==
    LET listCall == RemoteCall("ListBootVolumeAttachments", CallerCtx, "instance",
                               InstanceId, listResp)
    IN  IF listResp.err # NilErr
        THEN Returned(<<listCall>>, "", listResp.err)
        ELSE IF Len(listResp.items) = 0
        THEN \* BootVolumeDetails.Items[0] of an empty slice: index out of range
             Panicked(<<listCall>>)
        ELSE LET createCall == RemoteCall("CreateBootVolume", CallerCtx, "bootVolume",
                                          listResp.items[1], createResp)
             IN  IF createResp.err # NilErr
                 THEN Returned(<<listCall, createCall>>, "", createResp.err)
                 ELSE Returned(<<listCall, createCall>>, createResp.items[1], NilErr)

CreateBootClone(InstanceId, listResp, createResp) ==
    Invoke("CreateBootClone", Args("", "", InstanceId, ""),
           CreateBootCloneRun(InstanceId, listResp, createResp))

\* mutant: the volume id is returned instead of the attachment id
AttachBootCloneRun_ReturnsVolumeId(InstanceId, VolumeId, resp) ==
    LET call == RemoteCall("AttachVolume", CallerCtx, "paravirtualized", VolumeId, resp)
                @@ ("instance" :> InstanceId)
    IN  IF resp.err # NilErr THEN Returned(<<call>>, "", resp.err)
        ELSE Returned(<<call>>, VolumeId, NilErr)

\* AttachBootClone returns the id of the attachment the remote service made.
AttachBootCloneRun(InstanceId, VolumeId, resp) ==
    LET call == RemoteCall("AttachVolume", CallerCtx, "paravirtualized", VolumeId, resp)
                @@ ("instance" :> InstanceId)
    IN  IF resp.err # NilErr THEN Returned(<<call>>, "", resp.err)
        ELSE Returned(<<call>>, resp.items[1], NilErr)

AttachBootClone(InstanceId, VolumeId, resp) ==
    Invoke("AttachBootClone", Args("", "", InstanceId, VolumeId),
           AttachBootCloneRun(InstanceId, VolumeId, resp))

\* DetachBootClone returns the attachment id it was given.
DetachBootCloneRun(VolumeAttachmentId, resp) ==
    LET call == RemoteCall("DetachVolume", CallerCtx, "attachment", VolumeAttachmentId, resp)
    IN  IF resp.err # NilErr THEN Returned(<<call>>, "", resp.err)
        ELSE Returned(<<call>>, VolumeAttachmentId, NilErr)

DetachBootClone(VolumeAttachmentId, resp) ==
    Invoke("DetachBootClone", Args("", "", VolumeAttachmentId, ""),
           DetachBootCloneRun(VolumeAttachmentId, resp))

\* DetachBootClone called, right after a successful AttachBootClone, with the
\* id that call returned.
DetachAfterAttach(resp) ==
    /\ op = "AttachBootClone" /\ pc = "done"
    /\ outcome = "returned" /\ retErr = NilErr
    /\ Effects("DetachBootClone", Args("", "", retVal, ""),
               DetachBootCloneRun(retVal, resp))

\* mutant: the error of the remote CreateImage call is dropped
CreateImageRun_DropsError(id, resp) ==
    LET call == RemoteCall("CreateImage", CallerCtx, "instance", id, resp)
    IN  Returned(<<call>>, IF resp.err # NilErr THEN "" ELSE resp.items[1], NilErr)

\* CreateImage returns the created image (its id here), or the call's error.
CreateImageRun(id, resp) ==
    LET call == RemoteCall("CreateImage", CallerCtx, "instance", id, resp)
    IN  IF resp.err # NilErr THEN Returned(<<call>>, "", resp.err)
        ELSE Returned(<<call>>, resp.items[1], NilErr)

CreateImage(id, resp) ==
    Invoke("CreateImage", Args("", "", id, ""), CreateImageRun(id, resp))

DeleteImageRun(id, resp) ==
    Returned(<<RemoteCall("DeleteImage", CallerCtx, "image", id, resp)>>, "", resp.err)

DeleteImage(id, resp) ==
    Invoke("DeleteImage", Args("", "", id, ""), DeleteImageRun(id, resp))

ErrZeroVnics == [kind |-> "zerovnics", state |-> "", n |-> 0]

\* fmt.Errorf("Error getting VNIC details: %s", err)
VnicDetailsErr(err) == [kind |-> "vnicdetails", state |-> err.kind, n |-> 0]

\* fmt.Errorf("Error getting VNIC Public Ip for: %s", id)
NoPublicIpErr(id) == [kind |-> "nopublicip", state |-> id, n |-> 0]

\* mutant: the public address is required before the preference is looked at
SelectIP_PublicFirst(c, id, cs, privateIp, publicIp) ==
    IF publicIp = NilPtr THEN Returned(cs, "", NoPublicIpErr(id))
    ELSE IF c.UsePrivateIP
    THEN (IF privateIp = NilPtr THEN Panicked(cs) ELSE Returned(cs, privateIp, NilErr))
    ELSE Returned(cs, publicIp, NilErr)

\* The address GetInstanceIP returns from the vnic's details.
SelectIP(c, id, cs, privateIp, publicIp) ==
    IF c.UsePrivateIP
    THEN \* *vnic.PrivateIp: a nil pointer dereference when it is absent
         (IF privateIp = NilPtr THEN Panicked(cs) ELSE Returned(cs, privateIp, NilErr))
    ELSE IF publicIp = NilPtr THEN Returned(cs, "", NoPublicIpErr(id))
    ELSE Returned(cs, publicIp, NilErr)

GetInstanceIPRun(c, id, listResp, vnicResp) ==
    LET listCall == RemoteCall("ListVnicAttachments", CallerCtx, "instance", id, listResp)
    IN  IF listResp.err # NilErr
        THEN Returned(<<listCall>>, "", listResp.err)
        ELSE IF Len(listResp.items) = 0
        THEN Returned(<<listCall>>, "", ErrZeroVnics)
        ELSE LET vnicCall == RemoteCall("GetVnic", CallerCtx, "vnic",
                                        listResp.items[1], vnicResp)
                 cs == <<listCall, vnicCall>>
             IN  IF vnicResp.err # NilErr
                 THEN Returned(cs, "", VnicDetailsErr(vnicResp.err))
                 ELSE SelectIP(c, id, cs, vnicResp.items[1], vnicResp.items[2])

GetInstanceIP(id, listResp, vnicResp) ==
    Invoke("GetInstanceIP", Args("", "", id, ""),
           GetInstanceIPRun(cfg, id, listResp, vnicResp))

\* GetInstanceInitialCredentials returns the username and the password.
GetInstanceInitialCredentialsRun(id, resp) ==
    LET call == RemoteCall("GetWindowsInstanceInitialCredentials", CallerCtx,
                           "instance", id, resp)
    IN  IF resp.err # NilErr THEN Returned(<<call>>, <<"", "">>, resp.err)
        ELSE Returned(<<call>>, resp.items, resp.err)

GetInstanceInitialCredentials(id, resp) ==
    Invoke("GetInstanceInitialCredentials", Args("", "", id, ""),
           GetInstanceInitialCredentialsRun(id, resp))

TerminateInstanceRun(id, resp) ==
    Returned(<<RemoteCall("TerminateInstance", CallerCtx, "instance", id, resp)>>,
             "", resp.err)

TerminateInstance(id, resp) ==
    Invoke("TerminateInstance", Args("", "", id, ""), TerminateInstanceRun(id, resp))

DeleteBootVolumeRun(id, resp) ==
    Returned(<<RemoteCall("DeleteBootVolume", CallerCtx, "bootVolume", id, resp)>>,
             "", resp.err)

DeleteBootVolume(id, resp) ==
    Invoke("DeleteBootVolume", Args("", "", id, ""), DeleteBootVolumeRun(id, resp))

\* ------------------------------------------------------------------- Next
WaitSlices == Slices(States, MaxWait)

Next ==
    \/ \E ws \in WaitSlices, ts \in States, n \in (-1)..MaxRetriesBound : CallPoller(ws, ts, n)
    \/ WaitForImageCreation("r-1")
    \/ \E ws \in WaitSlices, ts \in States : WaitForInstanceState("r-1", ws, ts)
    \/ \E ws \in WaitSlices, ts \in States : WaitForBootVolumeState("r-1", ws, ts)
    \/ \E ws \in WaitSlices, ts \in States : WaitForVolumeAttachmentState("r-1", ws, ts)
    \/ \E resp \in FetchResponses(FetchCtx(op)) : Fetch(resp)
    \/ Sleep
    \/ Exhausted
    \/ Cancel
    \/ \E pk \in PublicKeys, sv \in VolumeIds, lr \in ListImagesResponses,
          nr \in LaunchInstanceResponses :
          CreateInstance(pk, sv, lr, nr)

Spec == Init /\ [][Next]_vars

\* ---------------------------------------- the driver's one-shot operations
\* The driver built over any configuration Prepare accepts.
InitDriver ==
    /\ cfg \in DriverConfigs
    /\ ctxCancelled = FALSE
    /\ op = "none"
    /\ pc = "idle"
    /\ args = NoArgs
    /\ calls = <<>>
    /\ outcome = "none"
    /\ retVal = ""
    /\ retErr = NilErr
    /\ waitStates = <<>>
    /\ terminalState = ""
    /\ maxRetries = 0
    /\ i = 0
    /\ observed = <<>>
    /\ fetches = 0
    /\ sleeps = 0

NextDriver ==
    \/ \E pk \in PublicKeys, sv \in VolumeIds, lr \in ListImagesResponses,
          nr \in LaunchInstanceResponses :
          CreateInstance(pk, sv, lr, nr)
    \/ \E id \in InstanceIds, lr \in ListResponses(BootVolumeIds, CallerCtx),
          cr \in IdResponses(VolumeIds \ {""}, CallerCtx) :
          CreateBootClone(id, lr, cr)
    \/ \E id \in InstanceIds, vol \in VolumeIds \ {""},
          r \in IdResponses(AttachmentIds, CallerCtx) :
          AttachBootClone(id, vol, r)
    \/ \E id \in AttachmentIds, r \in EmptyResponses(CallerCtx) : DetachBootClone(id, r)
    \/ \E r \in EmptyResponses(CallerCtx) : DetachAfterAttach(r)
    \/ \E id \in InstanceIds, r \in IdResponses(ImageIds, CallerCtx) : CreateImage(id, r)
    \/ \E id \in ImageIds, r \in EmptyResponses(CallerCtx) : DeleteImage(id, r)
    \/ \E id \in InstanceIds, lr \in ListResponses(VnicIds, CallerCtx),
          vr \in GetVnicResponses(CallerCtx) :
          GetInstanceIP(id, lr, vr)
    \/ \E id \in InstanceIds, r \in CredentialResponses(CallerCtx) :
          GetInstanceInitialCredentials(id, r)
    \/ \E id \in InstanceIds, r \in EmptyResponses(CallerCtx) : TerminateInstance(id, r)
    \/ \E id \in VolumeIds \ {""}, r \in EmptyResponses(CallerCtx) : DeleteBootVolume(id, r)

SpecDriver == InitDriver /\ [][NextDriver]_vars


\* ------------------------------------------------ the orchestrated workflow
\* The workflow over the driver, as the design describes it: Start ->
\* InstanceLaunched -> InstanceRunning -> ImageCaptured -> InstanceTerminated
\* -> Done, without the optional clone path. pc holds the stage, args.id the
\* launched instance, retVal the captured image, retErr the first failure.

\* How a wait for a lifecycle state ends: nil or the poller's error.
WaitOutcomes == {NilErr, ErrRemote, UnexpectedErr("TERMINATED")}

\* One step of the workflow: the run's calls are issued; a failure is kept as
\* the workflow's error and sends it to cleanup; otherwise the next stage.
WfAdvance(stage, a, run, next, val) ==
    /\ pc = stage
    /\ op' = "Build"
    /\ args' = a
    /\ calls' = calls \o run.calls
    /\ IF run.outcome = "panicked"
       THEN pc' = "done" /\ outcome' = "panicked" /\ retVal' = "" /\ retErr' = NilErr
       ELSE IF run.err # NilErr
       THEN pc' = "cleanup" /\ retErr' = run.err /\ UNCHANGED <<outcome, retVal>>
       ELSE /\ pc' = next /\ retVal' = val /\ retErr' = NilErr
            /\ outcome' = IF next = "done" THEN "returned" ELSE outcome
    /\ UNCHANGED <<cfg, ctxCancelled, pollerVars>>

WfLaunch(publicKey, listResp, launchResp) ==
    LET run == CreateInstanceRun(cfg, publicKey, "", listResp, launchResp)
    IN  WfAdvance("idle", Args(publicKey, "", run.val, ""), run, "launched", "")

WfWaitRunning(err) ==
    WfAdvance("launched", args, Returned(<<>>, "", err), "running", "")

WfCapture(resp) ==
    LET run == CreateImageRun(args.id, resp)
    IN  WfAdvance("running", args, run, "captured", run.val)

WfWaitImage(err) ==
    WfAdvance("captured", args, Returned(<<>>, "", err), "available", retVal)

WfTerminate(resp) ==
    WfAdvance("available", args, TerminateInstanceRun(args.id, resp), "done", retVal)

\* Best-effort reverse cleanup: the image is deleted if one was created, the
\* instance terminated if one was launched; what these calls answer is
\* logged, and the workflow returns its first failure.
WfCleanup(deleteResp, terminateResp) ==
    /\ pc = "cleanup"
    /\ calls' = calls
          \o (IF retVal # "" THEN DeleteImageRun(retVal, deleteResp).calls ELSE <<>>)
          \o (IF args.id # "" THEN TerminateInstanceRun(args.id, terminateResp).calls
              ELSE <<>>)
    /\ pc' = "done"
    /\ outcome' = "returned"
    /\ retVal' = ""
    /\ UNCHANGED <<cfg, ctxCancelled, op, args, retErr, pollerVars>>

NextWorkflow ==
    \/ \E pk \in PublicKeys, lr \in ListImagesResponses, nr \in LaunchInstanceResponses :
          WfLaunch(pk, lr, nr)
    \/ \E e \in WaitOutcomes : WfWaitRunning(e)
    \/ \E r \in IdResponses(ImageIds, CallerCtx) : WfCapture(r)
    \/ \E e \in WaitOutcomes : WfWaitImage(e)
    \/ \E r \in EmptyResponses(CallerCtx) : WfTerminate(r)
    \/ \E dr \in EmptyResponses(CallerCtx), tr \in EmptyResponses(CallerCtx) :
          WfCleanup(dr, tr)

SpecWorkflow == InitDriver /\ [][NextWorkflow]_vars

\* ============================================================ the claims
\* Membership in the waiting set, and the shape of what the poller has seen.
InWaitSet(s) == \E j \in 1..Len(waitStates) : waitStates[j] = s

IsState(k) == observed[k].err = NilErr

IsWaiting(k) == IsState(k) /\ InWaitSet(observed[k].state)

IsTerminal(k) == IsState(k) /\ observed[k].state = terminalState

IsUnexpected(k) == IsState(k) /\ ~InWaitSet(observed[k].state)
                   /\ observed[k].state # terminalState

\* observed is zero or more waiting states followed by exactly one terminalState
WaitingThenTerminal ==
    /\ Len(observed) >= 1
    /\ \A k \in 1..(Len(observed) - 1) : IsWaiting(k)
    /\ IsTerminal(Len(observed))

ReturnedSuccess == pc = "done" /\ outcome = "returned" /\ retErr = NilErr

\* C1 (as stated): for every waiting set, terminal state and observed sequence
\* of waiting states followed by one terminal state, the poller has returned
\* nil and has fetched exactly as many times as the sequence is long.
C1_Original ==
    WaitingThenTerminal => (ReturnedSuccess /\ fetches = Len(observed))

\* C1 (amended): the same, for a terminal state that is not itself one of the
\* waiting states.
C1_SuccessAfterWaiting ==
    (WaitingThenTerminal /\ ~InWaitSet(terminalState))
        => (ReturnedSuccess /\ fetches = Len(observed))

C1_Witness ==
    /\ op = "waitForResourceToReachState"
    /\ WaitingThenTerminal /\ ~InWaitSet(terminalState)
    /\ Len(observed) = 3 /\ maxRetries = 3
    /\ ReturnedSuccess

\* C2: once the k-th fetch has answered a state that is neither waiting nor
\* terminal, the poller has failed with the unexpected-state error naming that
\* state, and no fetch beyond the k-th is ever made.
C2_UnexpectedStateFails ==
    \A k \in 1..Len(observed) :
        IsUnexpected(k) =>
            /\ pc = "done" /\ outcome = "returned"
            /\ retErr = [kind |-> "unexpected", state |-> observed[k].state, n |-> 0]
            /\ fetches = k

C2_Witness ==
    /\ Len(observed) = 3 /\ IsUnexpected(3)
    /\ pc = "done" /\ retErr.kind = "unexpected"

\* C3: with a bounded budget N > 0 the poller never fetches more than N times;
\* after N waiting answers it makes no further fetch and fails with the
\* max-retries error naming N and the target state; and it returns that error
\* only after exactly N fetches.
C3_ExhaustedAfterBudget ==
    /\ maxRetries > 0 => fetches <= maxRetries
    /\ (maxRetries > 0 /\ Len(observed) = maxRetries
            /\ \A k \in 1..Len(observed) : IsWaiting(k))
        => /\ fetches = maxRetries
           /\ \/ pc = "sleep"
              \/ pc = "loop" /\ i = maxRetries
              \/ /\ pc = "done" /\ outcome = "returned"
                 /\ retErr = [kind |-> "maxretries", state |-> terminalState,
                              n |-> maxRetries]
    /\ (maxRetries > 0 /\ retErr.kind = "maxretries")
        => /\ fetches = maxRetries
           /\ \A k \in 1..Len(observed) : IsWaiting(k)

C3_Witness ==
    /\ pc = "done" /\ retErr.kind = "maxretries"
    /\ maxRetries = 3 /\ fetches = 3 /\ sleeps = 3

\* The step in which getResourceState is invoked.
FetchStep == fetches' = fetches + 1

\* C4 (as stated): whenever a fetch answers the terminal state, that same
\* step returns nil without sleeping, whatever the waiting set and terminal
\* state are.
C4_Original ==
    [][(FetchStep /\ observed'[fetches'].err = NilErr
            /\ observed'[fetches'].state = terminalState)
        => (pc' = "done" /\ outcome' = "returned" /\ retErr' = NilErr
            /\ sleeps' = sleeps)]_vars

\* C4 (amended): whenever a fetch answers the terminal state and the terminal
\* state is not one of the waiting states, that same step returns nil, without
\* sleeping and with no further fetch.
C4_TerminalReturnsAtOnce ==
    [][(FetchStep /\ observed'[fetches'].err = NilErr
            /\ observed'[fetches'].state = terminalState
            /\ ~InWaitSet(terminalState))
        => (pc' = "done" /\ outcome' = "returned" /\ retErr' = NilErr
            /\ sleeps' = sleeps)]_vars

C4_Witness ==
    /\ op = "WaitForInstanceState"
    /\ Len(observed) = 2 /\ IsWaiting(1) /\ IsTerminal(2)
    /\ ~InWaitSet(terminalState)
    /\ ReturnedSuccess /\ sleeps = 1

\* C5: whenever a fetch answers an error, that same step returns that very
\* error, without sleeping, whatever budget is left; no fetch follows it.
C5_FetchErrorPropagates ==
    [][(FetchStep /\ observed'[fetches'].err # NilErr)
        => (pc' = "done" /\ outcome' = "returned"
            /\ retErr' = observed'[fetches'].err /\ sleeps' = sleeps)]_vars

C5_Witness ==
    /\ Len(observed) = 2 /\ IsWaiting(1) /\ observed[2].err = ErrNotFound
    /\ maxRetries = 3
    /\ pc = "done" /\ retErr = ErrNotFound /\ fetches = 2


\* C6 (as stated): when the caller's ctx is cancelled while a WaitFor*
\* operation is inside its inter-poll sleep, the operation leaves the sleep
\* only by returning a cancellation error, the sleep left uncompleted.
C6_CancelAbortsSleep ==
    [][(op \in WaitOps /\ pc = "sleep" /\ ctxCancelled /\ pc' # "sleep")
        => (pc' = "done" /\ outcome' = "returned" /\ retErr' = ErrCanceled
            /\ sleeps' = sleeps)]_vars

\* The calls of the log made through api.
CallsOf(api) == {k \in 1..Len(calls) : calls[k].api = api}

\* C7 (as stated): every remote call a driver operation issues carries the
\* context its caller supplied.
C7_CallerCtxOnEveryCall ==
    \A k \in 1..Len(calls) : calls[k].ctx = CallerCtx

CreateInstanceDone == op = "CreateInstance" /\ pc = "done"

\* C8 (as stated): CreateInstance with a non-empty surrogate volume id issues
\* no ListImages call, whatever base image id and name are configured, and
\* launches from that boot volume.
C8_NoLookupForSurrogate ==
    (CreateInstanceDone /\ args.surrogateVolumeId # "")
        => /\ CallsOf("ListImages") = {}
           /\ \E k \in CallsOf("LaunchInstance") :
                 calls[k].arg = [kind |-> "bootVolume", id |-> args.surrogateVolumeId]

\* C9 (as stated): when the lookup by name answers zero matches,
\* CreateInstance returns an error and issues no LaunchInstance call.
C9_ZeroMatchesReturnsError ==
    (CreateInstanceDone
        /\ \E k \in CallsOf("ListImages") :
              calls[k].resp.err = NilErr /\ Len(calls[k].resp.items) = 0)
        => /\ outcome = "returned" /\ retErr # NilErr
           /\ CallsOf("LaunchInstance") = {}

\* C10: CreateInstance with an empty surrogate volume id and a configured base
\* image name issues exactly one ListImages call; every launch it issues is
\* from the image whose id is the first item of that call's answer; and it
\* does launch when the answer has a first item.
C10_LaunchFromFirstMatch ==
    (CreateInstanceDone /\ args.surrogateVolumeId = "" /\ cfg.BaseImageName # "")
        => /\ Cardinality(CallsOf("ListImages")) = 1
           /\ \A l \in CallsOf("ListImages") :
                 /\ calls[l].arg = [kind |-> "displayName", id |-> cfg.BaseImageName]
                 /\ \A k \in CallsOf("LaunchInstance") :
                       /\ Len(calls[l].resp.items) >= 1
                       /\ calls[k].arg = [kind |-> "image", id |-> calls[l].resp.items[1]]
                 /\ (calls[l].resp.err = NilErr /\ Len(calls[l].resp.items) >= 1)
                       => Cardinality(CallsOf("LaunchInstance")) = 1

C10_Witness ==
    /\ CreateInstanceDone /\ args.surrogateVolumeId = ""
    /\ cfg.BaseImageName # "" /\ cfg.BaseImageID # ""
    /\ Len(calls) = 2
    /\ calls[1].api = "ListImages" /\ calls[1].resp.items = <<"img-b", "img-a">>
    /\ calls[2].api = "LaunchInstance" /\ calls[2].arg = [kind |-> "image", id |-> "img-b"]
    /\ outcome = "returned" /\ retErr = NilErr /\ retVal = "i-1"


\* C14: a WaitFor* operation polls with the unlimited budget and never
\* returns the max-retries error: it is still polling, or it has returned nil,
\* an unexpected-state error, or the error its last fetch answered.
C14_WaitOpsNeverExhaust ==
    op \in WaitOps =>
        /\ maxRetries = 0
        /\ retErr.kind # "maxretries"
        /\ \/ pc \in {"loop", "sleep"} /\ outcome = "none"
           \/ /\ pc = "done" /\ outcome = "returned" /\ Len(observed) >= 1
              /\ \/ retErr = NilErr
                 \/ retErr.kind = "unexpected"
                 \/ retErr # NilErr /\ retErr = observed[Len(observed)].err

C14_Witness ==
    /\ op = "WaitForBootVolumeState"
    /\ fetches = 4 /\ sleeps = 3 /\ pc = "sleep"
    /\ \A k \in 1..Len(observed) : IsWaiting(k)

\* C16: WaitForImageCreation waits on exactly PROVISIONING for AVAILABLE: it
\* has returned nil exactly when AVAILABLE was fetched after nothing but
\* PROVISIONING, and a fetched IMPORTING, DISABLED or DELETED ends it at that
\* fetch with the unexpected-state error naming that state.
C16_ImageCreationStates ==
    op = "WaitForImageCreation" =>
        /\ ReturnedSuccess
             <=> \E k \in 1..Len(observed) :
                    /\ observed[k].err = NilErr /\ observed[k].state = "AVAILABLE"
                    /\ \A j \in 1..(k - 1) :
                          observed[j].err = NilErr /\ observed[j].state = "PROVISIONING"
        /\ \A k \in 1..Len(observed) :
              (observed[k].err = NilErr
                    /\ observed[k].state \in {"IMPORTING", "DISABLED", "DELETED"})
                => /\ pc = "done" /\ outcome = "returned"
                   /\ retErr = [kind |-> "unexpected", state |-> observed[k].state, n |-> 0]
                   /\ fetches = k
        /\ \A k \in 1..Len(observed) :
              (observed[k].err = NilErr /\ observed[k].state = "PROVISIONING")
                => (fetches > k \/ pc = "sleep" \/ pc = "loop")

C16_Witness ==
    /\ op = "WaitForImageCreation"
    /\ Len(observed) = 2
    /\ observed[1].err = NilErr /\ observed[1].state = "PROVISIONING"
    /\ observed[2].err = NilErr /\ observed[2].state = "IMPORTING"
    /\ pc = "done" /\ retErr.kind = "unexpected" /\ retErr.state = "IMPORTING"

PollerOps == WaitOps \cup {"waitForResourceToReachState"}

\* C19: under the unlimited budget the poller has returned exactly when some
\* fetch has answered an error or a state outside the waiting set; as long as
\* every answer is a waiting state it is still in its loop.
C19_ReturnsIffNonWaitingAnswer ==
    (op \in PollerOps /\ maxRetries = 0) =>
        /\ pc = "done" <=> \E k \in 1..Len(observed) : ~IsWaiting(k)
        /\ pc # "done" => (pc \in {"loop", "sleep"} /\ outcome = "none")

C19_Witness ==
    /\ op = "waitForResourceToReachState" /\ maxRetries = 0
    /\ fetches = 4 /\ sleeps = 4 /\ pc = "loop"
    /\ \A k \in 1..Len(observed) : IsWaiting(k)
    /\ InWaitSet(terminalState)


\* ------------------------------------- claims on the one-shot operations
CreateBootCloneDone == op = "CreateBootClone" /\ pc = "done"

\* C11 (as stated): when the boot volume attachment lookup answers zero
\* attachments, CreateBootClone returns an error and issues no
\* CreateBootVolume call.
C11_ZeroAttachmentsReturnsError ==
    (CreateBootCloneDone
        /\ \E k \in CallsOf("ListBootVolumeAttachments") :
              calls[k].resp.err = NilErr /\ Len(calls[k].resp.items) = 0)
        => /\ outcome = "returned" /\ retErr # NilErr
           /\ CallsOf("CreateBootVolume") = {}

GetInstanceIPDone == op = "GetInstanceIP" /\ pc = "done"

\* C12: once GetInstanceIP has fetched the details of the first listed vnic,
\* then with UsePrivateIP it returns that vnic's private address whether the
\* public address is present or nil, and without UsePrivateIP and with a nil
\* public address it returns an error, not an empty address with a nil error.
C12_PrivateOrExplicitError ==
    GetInstanceIPDone =>
        \A k \in CallsOf("GetVnic") :
            /\ \E l \in CallsOf("ListVnicAttachments") :
                  calls[k].arg = [kind |-> "vnic", id |-> calls[l].resp.items[1]]
            /\ (calls[k].resp.err = NilErr /\ cfg.UsePrivateIP
                    /\ calls[k].resp.items[1] # NilPtr)
                => /\ outcome = "returned" /\ retErr = NilErr
                   /\ retVal = calls[k].resp.items[1]
            /\ (calls[k].resp.err = NilErr /\ ~cfg.UsePrivateIP
                    /\ calls[k].resp.items[2] = NilPtr)
                => /\ outcome = "returned" /\ retErr # NilErr
                   /\ retErr.kind = "nopublicip" /\ retVal = ""

C12_Witness ==
    /\ GetInstanceIPDone /\ cfg.UsePrivateIP
    /\ Len(calls) = 2 /\ calls[1].resp.items = <<"vnic-2", "vnic-1">>
    /\ calls[2].arg.id = "vnic-2"
    /\ calls[2].resp.err = NilErr /\ calls[2].resp.items = <<"10.0.0.2", NilPtr>>
    /\ outcome = "returned" /\ retErr = NilErr /\ retVal = "10.0.0.2"

\* C13 (as stated): when a remote call of a driver operation answers an
\* error, the operation returns that very error and issues no call after it.
C13_RemoteErrorsUnchanged ==
    (pc = "done" /\ outcome = "returned")
        => \A k \in 1..Len(calls) :
              calls[k].resp.err # NilErr
                => (retErr = calls[k].resp.err /\ k = Len(calls))

\* DetachBootClone has run right after a successful AttachBootClone.
DetachFollowedAttach ==
    /\ op = "DetachBootClone" /\ pc = "done"
    /\ Len(calls) = 2 /\ calls[1].api = "AttachVolume"

\* C15: DetachBootClone called right after AttachBootClone with what it
\* returned detaches the attachment the remote AttachVolume call answered, not
\* the volume, and, the remote detach accepted, returns that same attachment
\* id with a nil error.
C15_DetachReturnsAttachmentId ==
    DetachFollowedAttach =>
        /\ calls[1].resp.err = NilErr
        /\ calls[2].api = "DetachVolume"
        /\ calls[2].arg = [kind |-> "attachment", id |-> calls[1].resp.items[1]]
        /\ args.id = calls[1].resp.items[1]
        /\ calls[2].resp.err = NilErr
             => /\ outcome = "returned" /\ retErr = NilErr
                /\ retVal = calls[1].resp.items[1]

C15_Witness ==
    /\ DetachFollowedAttach
    /\ calls[1].arg.id = "vol-1" /\ calls[1].resp.items = <<"att-1">>
    /\ calls[2].resp.err = NilErr
    /\ outcome = "returned" /\ retErr = NilErr /\ retVal = "att-1"

\* The configuration has a custom user_data entry and an explicit user_data.
BothUserData == "user_data" \in DOMAIN cfg.Metadata /\ cfg.UserData # ""

\* C18 (as stated): with both a custom user_data entry and an explicit
\* user_data, the launch metadata has the explicit value under user_data, the
\* public key under ssh_authorized_keys, and every other custom entry.
C18_Original ==
    (CreateInstanceDone /\ BothUserData)
        => \A k \in CallsOf("LaunchInstance") :
              /\ calls[k].metadata["user_data"] = cfg.UserData
              /\ calls[k].metadata["ssh_authorized_keys"] = args.publicKey
              /\ \A key \in DOMAIN cfg.Metadata \ {"user_data", "ssh_authorized_keys"} :
                    calls[k].metadata[key] = cfg.Metadata[key]

\* C18 (amended): with both a custom user_data entry and an explicit
\* user_data, the launch metadata has exactly the keys ssh_authorized_keys,
\* user_data and the custom ones; user_data has the explicit value, every
\* other custom entry has its custom value, and ssh_authorized_keys has the
\* public key unless a custom entry of that name replaces it.
C18_ExplicitUserDataWins ==
    (CreateInstanceDone /\ BothUserData)
        => \A k \in CallsOf("LaunchInstance") :
              /\ DOMAIN calls[k].metadata
                    = {"ssh_authorized_keys", "user_data"} \cup DOMAIN cfg.Metadata
              /\ calls[k].metadata["user_data"] = cfg.UserData
              /\ \A key \in DOMAIN cfg.Metadata \ {"user_data"} :
                    calls[k].metadata[key] = cfg.Metadata[key]
              /\ "ssh_authorized_keys" \notin DOMAIN cfg.Metadata
                    => calls[k].metadata["ssh_authorized_keys"] = args.publicKey

C18_Witness ==
    /\ CreateInstanceDone
    /\ cfg.Metadata = ("user_data" :> "md-ud") @@ ("team" :> "infra")
    /\ cfg.UserData = "dXNlcg=="
    /\ \E k \in CallsOf("LaunchInstance") :
          calls[k].metadata = ("ssh_authorized_keys" :> "ssh-rsa KEY")
                                @@ ("team" :> "infra") @@ ("user_data" :> "dXNlcg==")
    /\ outcome = "returned" /\ retErr = NilErr

\* C20: CreateInstance with an empty surrogate volume id launches from the
\* image the name lookup answered first whenever a base image name is
\* configured, a base image id being configured or not; it launches from the
\* configured base image id, with no lookup, only when the name is empty.
C20_NameLookupOverridesId ==
    (CreateInstanceDone /\ args.surrogateVolumeId = "")
        => \A k \in CallsOf("LaunchInstance") :
              /\ cfg.BaseImageName # ""
                    => \E l \in CallsOf("ListImages") :
                          /\ l < k
                          /\ calls[k].arg = [kind |-> "image", id |-> calls[l].resp.items[1]]
              /\ cfg.BaseImageName = ""
                    => /\ CallsOf("ListImages") = {}
                       /\ calls[k].arg = [kind |-> "image", id |-> cfg.BaseImageID]

C20_Witness ==
    /\ CreateInstanceDone /\ args.surrogateVolumeId = ""
    /\ cfg.BaseImageID = "img-cfg" /\ cfg.BaseImageName = "base-name"
    /\ Len(calls) = 2 /\ calls[1].resp.items = <<"img-a">>
    /\ calls[2].api = "LaunchInstance" /\ calls[2].arg = [kind |-> "image", id |-> "img-a"]
    /\ outcome = "returned" /\ retErr = NilErr


\* ------------------------------------------------- claims on the workflow
WorkflowDone == op = "Build" /\ pc = "done" /\ outcome = "returned"

\* C17: when the workflow has launched an instance and its CreateImage call
\* then failed with a remote error, TerminateInstance is called on that
\* instance after the failure, and the workflow returns the error of the
\* CreateImage call, whatever the cleanup calls answered.
C17_CleanupKeepsOriginalError ==
    WorkflowDone =>
        \A k \in CallsOf("CreateImage") :
            calls[k].resp.err # NilErr
              => /\ \E l \in CallsOf("LaunchInstance") :
                       /\ l < k /\ calls[l].resp.err = NilErr
                       /\ calls[k].arg.id = calls[l].resp.items[1]
                       /\ \E t \in CallsOf("TerminateInstance") :
                             t > k /\ calls[t].arg.id = calls[l].resp.items[1]
                 /\ retErr = calls[k].resp.err

C17_Witness ==
    /\ WorkflowDone
    /\ \E k \in CallsOf("CreateImage"), t \in CallsOf("TerminateInstance") :
          /\ calls[k].arg.id = "i-1" /\ calls[k].resp.err = ErrRemote
          /\ t > k /\ calls[t].arg.id = "i-1" /\ calls[t].resp.err = ErrNotFound
    /\ retErr = ErrRemote


\* ------------------------------------------ claims on multi-call operations
\* The driver operations that can issue more than one remote call.
MultiCallOps == {"CreateInstance", "CreateBootClone", "GetInstanceIP"}

\* C21: when a remote call of a multi-call driver operation has answered an
\* error, it is the last call the operation issued, and the operation
\* returned with the empty string as identifier: a failed ListImages is
\* followed by no LaunchInstance, a failed ListBootVolumeAttachments by no
\* CreateBootVolume, and a failed ListVnicAttachments by no GetVnic.
C21_NoCallAfterFailure ==
    (pc = "done" /\ op \in MultiCallOps)
        => \A k \in 1..Len(calls) :
              calls[k].resp.err # NilErr
                => /\ k = Len(calls)
                   /\ outcome = "returned" /\ retVal = ""
                   /\ calls[k].api = "ListImages" => CallsOf("LaunchInstance") = {}
                   /\ calls[k].api = "ListBootVolumeAttachments"
                        => CallsOf("CreateBootVolume") = {}
                   /\ calls[k].api = "ListVnicAttachments" => CallsOf("GetVnic") = {}

C21_Witness ==
    /\ op = "CreateBootClone" /\ pc = "done"
    /\ Len(calls) = 1 /\ calls[1].api = "ListBootVolumeAttachments"
    /\ calls[1].resp.err = ErrRemote
    /\ outcome = "returned" /\ retVal = "" /\ retErr = ErrRemote

====
